---- MODULE Spec2Model ----
(***************************************************************************)
(* k8s-event-tailer: the event watcher (classification, counting, draining *)
(* of the informer store), the periodic stats printer, the web server and  *)
(* the shutdown coordination of main.                                      *)
(*                                                                         *)
(* The repository holds two revisions of the EventWatcher:                 *)
(*   "isOldEvent" - cmd/k8s-event-tailer/eventwatcher.go lines 1-150:      *)
(*                  classification by isOldEvent, Run blocks on stopChan;  *)
(*   "inline"     - unnamed/part_001: classification written inline in     *)
(*                  each handler with time.Since, Run starts runStatsPrint *)
(*                  and waits for it.                                      *)
(* main and the WebServer are the same for both. The revision is fixed at  *)
(* Init and never changes.                                                 *)
(***************************************************************************)
EXTENDS Integers, Sequences, FiniteSets, TLC

\* ---------------------------------------------------------------- bounds
MaxNotifications == 2   \* notifications the informer delivers in a run
InitialClock == 6       \* wall clock at process start, in minutes
MaxTime == 7            \* the wall clock runs InitialClock..MaxTime (minutes)
MaxSnapshots == 2       \* STATS snapshots the stats loop prints in a run

\* ------------------------------------------------------ program constants
oldEventAgeMinutes == 5
Minute == 1             \* time.Minute, in the model's time unit
Int32Max == 2147483647
Int32Min == -Int32Max - 1

Revisions == {"isOldEvent", "inline"}
Kinds == {"add", "update", "delete"}
Keys == {"default/a"}
\* lastTimestamp of the events the informer delivers: older than the
\* threshold at process start, exactly the threshold old, and in the future
TimeStamps ==
    {InitialClock - oldEventAgeMinutes * Minute - 1,
     InitialClock - oldEventAgeMinutes * Minute,
     MaxTime}
StatsIntervals == {-1, 0, 1}
NoNotification == [kind |-> "none", key |-> "none", ts |-> 0]
NoSnapshot ==
    [items |-> 0, addCounter |-> 0, updateCounter |-> 0, deleteCounter |-> 0,
     added |-> 0, updated |-> 0, deleted |-> 0]
Messages ==
    {"Event added", "Event updated", "Event deleted", "Could not delete object",
     "Watcher started", "Disabling stats", "Starting stats", "Stopping stats",
     "Signal to terminate received", "Shut down web server", "Error stopping webserver"}

VARIABLES
    revision,              \* which EventWatcher revision is built
    statsIntervalSeconds,  \* --stats-interval
    now,                   \* wall clock (time.Now), minutes
    startTime,             \* ew._startTime; 0 is the zero time.Time
    store,                 \* ew._store: keys the informer store holds
    notification,          \* the item the informer is processing, or NoNotification
    pending,               \* an item already applied to the store whose handler has
                           \* not been called yet (concurrent dispatch), or NoNotification
    addCounter, updateCounter, deleteCounter,   \* the int32 globals of main.go
    metrics,               \* the prometheus counters of the EventWatcher
    logs,                  \* log records written, per message
    handled,               \* notifications handled so far
    onlyFreshAdds,         \* every notification handled so far was an add taken as fresh
    snapshot,              \* the STATS records printed last, or NoSnapshot
    printed,               \* STATS snapshots printed so far
    emitted,               \* per counter, the sum of the deltas in all STATS
                           \* records printed so far
    prevAdd, prevUpdate, prevDelete,            \* locals of runStatsPrint
    addC, updateC, deleteC,                     \* locals of its ticker case
    tickerC,               \* ticker.C: ticks buffered (capacity 1)
    stopChan,              \* "open" or "closed"
    closes,                \* number of close(stopChan) executed
    signalChan,            \* signals buffered (capacity 1)
    wg,                    \* main's WaitGroup counter
    mainPc, watcherPc, statsPc, controllerPc, webRunPc, webStopPc, listenPc

counters == <<addCounter, updateCounter, deleteCounter, metrics>>
statsLocals == <<snapshot, printed, emitted, prevAdd, prevUpdate, prevDelete,
                 addC, updateC, deleteC>>
webPcs == <<webRunPc, webStopPc, listenPc>>
config == <<revision, statsIntervalSeconds>>
events == <<store, notification, pending, counters, handled, onlyFreshAdds>>
vars == <<revision, statsIntervalSeconds, now, startTime, store, notification, pending,
          addCounter, updateCounter, deleteCounter, metrics, logs, handled, onlyFreshAdds,
          snapshot, printed, emitted, prevAdd, prevUpdate, prevDelete,
          addC, updateC, deleteC, tickerC,
          stopChan, closes, signalChan, wg,
          mainPc, watcherPc, statsPc, controllerPc, webRunPc, webStopPc, listenPc>>

\* ---------------------------------------------------------------- helpers
\* an increment by compare-and-swap from a stale 0 without retry: it is lost
\* when another increment has landed
AddInt32Lossy(c) == IF c = 0 THEN 1 ELSE c

\* atomic.AddInt32(&c, 1): two's complement wrap-around
AddInt32(c) == IF c = Int32Max THEN Int32Min ELSE c + 1

\* int32 subtraction a - b
SubInt32(a, b) ==
    LET d == a - b
    IN  IF d > Int32Max THEN (d - Int32Max - 1) + Int32Min
        ELSE IF d < Int32Min THEN (d - Int32Min) + Int32Max + 1 ELSE d

\* logger.X().Msg(m): one more record with message m
Log(l, m) == [l EXCEPT ![m] = @ + 1]

\* prometheus Counter.Inc() on counter c of the watcher
Inc(m, c) == [m EXCEPT ![c] = @ + 1]

Init ==
    /\ revision \in Revisions
    /\ statsIntervalSeconds \in
          (IF revision = "inline" THEN StatsIntervals ELSE {0})
    /\ now = InitialClock
    /\ startTime = 0
    /\ store = {}
    /\ notification = NoNotification
    /\ pending = NoNotification
    /\ addCounter = 0 /\ updateCounter = 0 /\ deleteCounter = 0
    /\ metrics = [c \in {"add", "update", "delete", "old"} |-> 0]
    /\ logs = [m \in Messages |-> 0]
    /\ handled = 0 /\ onlyFreshAdds = TRUE
    /\ snapshot = NoSnapshot /\ printed = 0
    /\ emitted = [added |-> 0, updated |-> 0, deleted |-> 0]
    /\ prevAdd = 0 /\ prevUpdate = 0 /\ prevDelete = 0
    /\ addC = 0 /\ updateC = 0 /\ deleteC = 0
    /\ tickerC = 0
    /\ stopChan = "open" /\ closes = 0
    /\ signalChan = 0
    /\ wg = 0
    /\ mainPc = "startWatcher"
    /\ watcherPc = "none" /\ statsPc = "none" /\ controllerPc = "none"
    /\ webRunPc = "none" /\ webStopPc = "none" /\ listenPc = "none"

\* ------------------------------------------------------------- classifier
\* EventWatcher.isOldEvent (revision "isOldEvent")
isOldEvent(ts) ==
    IF ts > startTime
    THEN FALSE
    ELSE startTime - ts > oldEventAgeMinutes * Minute

\* the condition written inline in OnAdd/OnUpdate/OnDelete (revision "inline"):
\* LastTimestamp.After(_startTime) || time.Since(LastTimestamp) < 5 min
\* time.Since reads the wall clock: the condition evaluated at time clock
inlineFreshAt(ts, clock) ==
    \/ ts > startTime
    \/ clock - ts < oldEventAgeMinutes * Minute

inlineFresh(ts) == inlineFreshAt(ts, now)

\* the branch a handler of the built revision takes when it runs at time
\* clock: TRUE = the else branch
classifiedOldAt(ts, clock) ==
    IF revision = "isOldEvent" THEN isOldEvent(ts) ELSE ~inlineFreshAt(ts, clock)

classifiedOld(ts) == classifiedOldAt(ts, now)

\* ---------------------------------------------------------------- handlers
\* EventWatcher.logEvent: one structured record with the transition message
logEvent(l, message) == Log(l, message)

\* cache.Store.Delete fails when the object is absent
storeDeleteFails(key) == key \notin store

\* deleteEvent never called (as in OnDelete, where the call is commented out)
deleteEventSkipped(key) == store

\* EventWatcher.deleteEvent: the store after the delete
deleteEventStore(key) == store \ {key}

\* deleteEvent dropping the error of Store.Delete
deleteEventIgnoresError(l, key) == l

\* EventWatcher.deleteEvent: the log after the delete
deleteEventLogs(l, key) ==
    IF storeDeleteFails(key) THEN Log(l, "Could not delete object") ELSE l

lifecycle == <<stopChan, closes, signalChan, wg,
               mainPc, watcherPc, statsPc, controllerPc, webRunPc, webStopPc,
               listenPc>>

\* what no handler touches
HandlerFrame ==
    UNCHANGED <<config, now, startTime, pending, statsLocals, tickerC, lifecycle>>

\* the informer's processing goroutine runs while the process lives
handlerRuns(kind) ==
    /\ mainPc # "exited"
    /\ controllerPc = "running"
    /\ notification.kind = kind

\* OnAdd with the counter of OnUpdate (a copy-and-paste slip)
OnAddCountsUpdate ==
    /\ handlerRuns("add")
    /\ LET old == classifiedOld(notification.ts)
           key == notification.key
       IN  /\ IF ~old
              THEN /\ updateCounter' = AddInt32(updateCounter)
                   /\ metrics' = Inc(metrics, "update")
                   /\ logs' = deleteEventLogs(logEvent(logs, "Event added"), key)
              ELSE /\ metrics' = Inc(metrics, "old")
                   /\ logs' = deleteEventLogs(logs, key)
                   /\ UNCHANGED updateCounter
           /\ store' = deleteEventStore(key)
           /\ notification' = NoNotification
    /\ handled' = handled + 1
    /\ onlyFreshAdds' = (onlyFreshAdds /\ ~classifiedOld(notification.ts))
    /\ UNCHANGED <<addCounter, deleteCounter>>
    /\ HandlerFrame

OnAdd ==
    /\ handlerRuns("add")
    /\ LET old == classifiedOld(notification.ts)
           key == notification.key
       IN  /\ IF ~old
              THEN /\ addCounter' = AddInt32(addCounter)
                   /\ metrics' = Inc(metrics, "add")
                   /\ logs' = deleteEventLogs(logEvent(logs, "Event added"), key)
              ELSE /\ metrics' = Inc(metrics, "old")
                   /\ logs' = deleteEventLogs(logs, key)
                   /\ UNCHANGED addCounter
           /\ store' = deleteEventStore(key)
           /\ notification' = NoNotification
    /\ handled' = handled + 1
    /\ onlyFreshAdds' = (onlyFreshAdds /\ ~classifiedOld(notification.ts))
    /\ UNCHANGED <<updateCounter, deleteCounter>>
    /\ HandlerFrame

\* OnUpdate without the else branch: an old event is not counted at all
OnUpdateDropsOld ==
    /\ handlerRuns("update")
    /\ LET old == classifiedOld(notification.ts)
           key == notification.key
       IN  /\ IF ~old
              THEN /\ updateCounter' = AddInt32(updateCounter)
                   /\ metrics' = Inc(metrics, "update")
                   /\ logs' = deleteEventLogs(logEvent(logs, "Event updated"), key)
              ELSE /\ logs' = deleteEventLogs(logs, key)
                   /\ UNCHANGED <<metrics, updateCounter>>
           /\ store' = deleteEventStore(key)
           /\ notification' = NoNotification
    /\ handled' = handled + 1
    /\ onlyFreshAdds' = FALSE
    /\ UNCHANGED <<addCounter, deleteCounter>>
    /\ HandlerFrame

OnUpdate ==
    /\ handlerRuns("update")
    /\ LET old == classifiedOld(notification.ts)
           key == notification.key
       IN  /\ IF ~old
              THEN /\ updateCounter' = AddInt32(updateCounter)
                   /\ metrics' = Inc(metrics, "update")
                   /\ logs' = deleteEventLogs(logEvent(logs, "Event updated"), key)
              ELSE /\ metrics' = Inc(metrics, "old")
                   /\ logs' = deleteEventLogs(logs, key)
                   /\ UNCHANGED updateCounter
           /\ store' = deleteEventStore(key)
           /\ notification' = NoNotification
    /\ handled' = handled + 1
    /\ onlyFreshAdds' = FALSE
    /\ UNCHANGED <<addCounter, deleteCounter>>
    /\ HandlerFrame

\* OnDelete with logEvent called before the classification
OnDeleteLogsFirst ==
    /\ handlerRuns("delete")
    /\ LET old == classifiedOld(notification.ts)
       IN  /\ logs' = logEvent(logs, "Event deleted")
           /\ IF ~old
              THEN /\ deleteCounter' = AddInt32(deleteCounter)
                   /\ metrics' = Inc(metrics, "delete")
              ELSE /\ metrics' = Inc(metrics, "old")
                   /\ UNCHANGED deleteCounter
           /\ notification' = NoNotification
    /\ handled' = handled + 1
    /\ onlyFreshAdds' = FALSE
    /\ UNCHANGED <<store, addCounter, updateCounter>>
    /\ HandlerFrame

\* OnDelete with the call of deleteEvent not commented out
OnDeleteCallsDeleteEvent ==
    /\ handlerRuns("delete")
    /\ LET old == classifiedOld(notification.ts)
           key == notification.key
       IN  /\ IF ~old
              THEN /\ deleteCounter' = AddInt32(deleteCounter)
                   /\ metrics' = Inc(metrics, "delete")
                   /\ logs' = deleteEventLogs(logEvent(logs, "Event deleted"), key)
              ELSE /\ metrics' = Inc(metrics, "old")
                   /\ logs' = deleteEventLogs(logs, key)
                   /\ UNCHANGED deleteCounter
           /\ store' = deleteEventStore(key)
           /\ notification' = NoNotification
    /\ handled' = handled + 1
    /\ onlyFreshAdds' = FALSE
    /\ UNCHANGED <<addCounter, updateCounter>>
    /\ HandlerFrame

\* OnDelete: the call of deleteEvent is commented out
OnDelete ==
    /\ handlerRuns("delete")
    /\ LET old == classifiedOld(notification.ts)
       IN  /\ IF ~old
              THEN /\ deleteCounter' = AddInt32(deleteCounter)
                   /\ metrics' = Inc(metrics, "delete")
                   /\ logs' = logEvent(logs, "Event deleted")
              ELSE /\ metrics' = Inc(metrics, "old")
                   /\ UNCHANGED <<logs, deleteCounter>>
           /\ notification' = NoNotification
    /\ handled' = handled + 1
    /\ onlyFreshAdds' = FALSE
    /\ UNCHANGED <<store, addCounter, updateCounter>>
    /\ HandlerFrame

\* ---------------------------------------------------------------- informer
\* The informer built by cache.NewInformer, run by controller.Run: it puts
\* an added or updated object into the store (or removes a deleted one) and
\* then calls the matching handler, one item at a time.
InformerDeliver ==
    /\ mainPc # "exited"
    /\ controllerPc = "running"
    /\ notification = NoNotification
    /\ pending = NoNotification
    /\ handled < MaxNotifications
    /\ \E kind \in Kinds, key \in Keys, ts \in TimeStamps :
          /\ store' = IF kind = "delete" THEN store \ {key} ELSE store \cup {key}
          /\ notification' = [kind |-> kind, key |-> key, ts |-> ts]
    /\ UNCHANGED <<config, now, startTime, pending, counters, logs, handled,
                   onlyFreshAdds, statsLocals, tickerC, lifecycle>>

\* A mirror that dispatches concurrently: it applies the next change to the
\* store while the handler of the previous one has not returned yet.
InformerDeliverAhead ==
    /\ mainPc # "exited"
    /\ controllerPc = "running"
    /\ notification # NoNotification
    /\ pending = NoNotification
    /\ handled + 1 < MaxNotifications
    /\ \E kind \in Kinds, key \in Keys, ts \in TimeStamps :
          /\ store' = IF kind = "delete" THEN store \ {key} ELSE store \cup {key}
          /\ pending' = [kind |-> kind, key |-> key, ts |-> ts]
    /\ UNCHANGED <<config, now, startTime, notification, counters, logs, handled,
                   onlyFreshAdds, statsLocals, tickerC, lifecycle>>

\* the handler of the change applied ahead is called once the previous
\* handler has returned
InformerDispatch ==
    /\ mainPc # "exited"
    /\ controllerPc = "running"
    /\ notification = NoNotification
    /\ pending # NoNotification
    /\ notification' = pending
    /\ pending' = NoNotification
    /\ UNCHANGED <<config, now, startTime, store, counters, logs, handled,
                   onlyFreshAdds, statsLocals, tickerC, lifecycle>>

\* the informer delivering an event with any lastTimestamp up to MaxTime
InformerDeliverAnyTime ==
    /\ mainPc # "exited"
    /\ controllerPc = "running"
    /\ notification = NoNotification
    /\ pending = NoNotification
    /\ handled < MaxNotifications
    /\ \E kind \in Kinds, key \in Keys, ts \in 0 .. MaxTime :
          /\ store' = IF kind = "delete" THEN store \ {key} ELSE store \cup {key}
          /\ notification' = [kind |-> kind, key |-> key, ts |-> ts]
    /\ UNCHANGED <<config, now, startTime, pending, counters, logs, handled,
                   onlyFreshAdds, statsLocals, tickerC, lifecycle>>

\* time passes
ClockTick ==
    /\ mainPc # "exited"
    /\ now < MaxTime
    /\ now' = now + 1
    /\ UNCHANGED <<config, startTime, events, logs, statsLocals, tickerC, lifecycle>>


\* -------------------------------------------------------------------- main
\* main: wg.Add(1); go watcher.Run(stopChan, wg)
MainStartWatcher ==
    /\ mainPc = "startWatcher"
    /\ wg' = wg + 1
    /\ watcherPc' = "setup"
    /\ mainPc' = "startWeb"
    /\ UNCHANGED <<config, now, startTime, events, logs, statsLocals, tickerC,
                   stopChan, closes, signalChan, statsPc, controllerPc, webPcs>>

\* main: wg.Add(1); go NewWebServer(*port).Run(stopChan, wg)
MainStartWeb ==
    /\ mainPc = "startWeb"
    /\ wg' = wg + 1
    /\ webRunPc' = "start"
    /\ mainPc' = "awaitSignal"
    /\ UNCHANGED <<config, now, startTime, events, logs, statsLocals, tickerC,
                   stopChan, closes, signalChan, watcherPc, statsPc, controllerPc,
                   webStopPc, listenPc>>

\* main: <-signalChan; log.Warn().Msg("Signal to terminate received")
MainAwaitSignal ==
    /\ mainPc = "awaitSignal"
    /\ signalChan > 0
    /\ signalChan' = signalChan - 1
    /\ logs' = Log(logs, "Signal to terminate received")
    /\ mainPc' = "closeStop"
    /\ UNCHANGED <<config, now, startTime, events, statsLocals, tickerC,
                   stopChan, closes, wg, watcherPc, statsPc,
                   controllerPc, webPcs>>

\* main: close(stopChan)
MainCloseStop ==
    /\ mainPc = "closeStop"
    /\ stopChan' = "closed"
    /\ closes' = closes + 1
    /\ mainPc' = "wait"
    /\ UNCHANGED <<config, now, startTime, events, logs, statsLocals, tickerC,
                   signalChan, wg, watcherPc, statsPc, controllerPc, webPcs>>

\* main waiting for signals in a loop: after wg.Wait() it reads signalChan
\* again and closes stopChan a second time
MainWaitLoops ==
    /\ mainPc = "wait"
    /\ wg = 0
    /\ mainPc' = "awaitSignal"
    /\ UNCHANGED <<config, now, startTime, events, logs, statsLocals, tickerC,
                   stopChan, closes, signalChan, wg, watcherPc, statsPc,
                   controllerPc, webPcs>>

\* main: wg.Wait(), then main returns and the process exits
MainWait ==
    /\ mainPc = "wait"
    /\ wg = 0
    /\ mainPc' = "exited"
    /\ UNCHANGED <<config, now, startTime, events, logs, statsLocals, tickerC,
                   stopChan, closes, signalChan, wg, watcherPc, statsPc,
                   controllerPc, webPcs>>

\* signal.Notify(signalChan, os.Interrupt, syscall.SIGTERM) on a channel of
\* capacity 1: the runtime sends without blocking; a signal that finds the
\* channel full is dropped and changes nothing
SignalArrives ==
    /\ mainPc # "exited"
    /\ signalChan < 1
    /\ signalChan' = signalChan + 1
    /\ UNCHANGED <<config, now, startTime, events, logs, statsLocals, tickerC,
                   stopChan, closes, wg, mainPc, watcherPc, statsPc,
                   controllerPc, webPcs>>

\* --------------------------------------------------------- EventWatcher.Run
\* Run up to ew._startTime = time.Now().UTC() and ew.setupStats()
RunSetup ==
    /\ mainPc # "exited"
    /\ watcherPc = "setup"
    /\ startTime' = now
    /\ watcherPc' = "startController"
    /\ UNCHANGED <<config, now, events, logs, statsLocals, tickerC, stopChan,
                   closes, signalChan, wg, mainPc, statsPc, controllerPc, webPcs>>

\* Run assigning _startTime a second time when it starts the controller
RunStartControllerSetsStartTime ==
    /\ mainPc # "exited"
    /\ watcherPc = "startController"
    /\ controllerPc' = "running"
    /\ startTime' = now
    /\ logs' = Log(logs, "Watcher started")
    /\ IF revision = "inline"
       THEN statsPc' = "start" /\ watcherPc' = "waitStats"
       ELSE statsPc' = statsPc /\ watcherPc' = "waitStop"
    /\ UNCHANGED <<config, now, events, statsLocals, tickerC, stopChan,
                   closes, signalChan, wg, mainPc, webPcs>>

\* go controller.Run(stopChan); "Watcher started"; revision "inline" also
\* does iwg.Add(1); go ew.runStatsPrint(stopChan, iwg)
RunStartController ==
    /\ mainPc # "exited"
    /\ watcherPc = "startController"
    /\ controllerPc' = "running"
    /\ logs' = Log(logs, "Watcher started")
    /\ IF revision = "inline"
       THEN statsPc' = "start" /\ watcherPc' = "waitStats"
       ELSE statsPc' = statsPc /\ watcherPc' = "waitStop"
    /\ UNCHANGED <<config, now, startTime, events, statsLocals, tickerC, stopChan,
                   closes, signalChan, wg, mainPc, webPcs>>

\* revision "isOldEvent": <-stopChan, then the deferred wg.Done()
RunReturnOnStop ==
    /\ mainPc # "exited"
    /\ watcherPc = "waitStop"
    /\ stopChan = "closed"
    /\ wg' = wg - 1
    /\ watcherPc' = "done"
    /\ UNCHANGED <<config, now, startTime, events, logs, statsLocals, tickerC,
                   stopChan, closes, signalChan, mainPc, statsPc, controllerPc, webPcs>>

\* revision "inline": iwg.Wait() returns when runStatsPrint has returned,
\* then the deferred wg.Done()
RunReturnOnStats ==
    /\ mainPc # "exited"
    /\ watcherPc = "waitStats"
    /\ statsPc = "done"
    /\ wg' = wg - 1
    /\ watcherPc' = "done"
    /\ UNCHANGED <<config, now, startTime, events, logs, statsLocals, tickerC,
                   stopChan, closes, signalChan, mainPc, statsPc, controllerPc, webPcs>>

\* controller.Run(stopChan) returns once stopChan is closed; it finishes the
\* item it is processing first
ControllerStop ==
    /\ mainPc # "exited"
    /\ controllerPc = "running"
    /\ stopChan = "closed"
    /\ notification = NoNotification
    /\ controllerPc' = "done"
    /\ UNCHANGED <<config, now, startTime, events, logs, statsLocals, tickerC,
                   stopChan, closes, signalChan, wg, mainPc, watcherPc, statsPc, webPcs>>

\* ------------------------------------------------------------ runStatsPrint
\* one STATS snapshot: the three Msgf records of the ticker case
Snapshot ==
    [items |-> Cardinality(store),
     addCounter |-> addC, updateCounter |-> updateC, deleteCounter |-> deleteC,
     added |-> SubInt32(addC, prevAdd),
     updated |-> SubInt32(updateC, prevUpdate),
     deleted |-> SubInt32(deleteC, prevDelete)]

\* the deltas of the records being printed, added to those printed before
Emitted ==
    [added |-> emitted.added + Snapshot.added,
     updated |-> emitted.updated + Snapshot.updated,
     deleted |-> emitted.deleted + Snapshot.deleted]

\* runStatsPrint testing statsIntervalSeconds < 0 instead of <= 0
StatsStartStrict ==
    /\ mainPc # "exited"
    /\ statsPc = "start"
    /\ IF statsIntervalSeconds < 0
       THEN /\ logs' = Log(logs, "Disabling stats")
            /\ statsPc' = "done"
       ELSE /\ logs' = Log(logs, "Starting stats")
            /\ statsPc' = "loop"
    /\ UNCHANGED <<config, now, startTime, events, statsLocals, tickerC, stopChan,
                   closes, signalChan, wg, mainPc, watcherPc, controllerPc, webPcs>>

\* runStatsPrint up to the loop: disabled and done when the interval is <= 0,
\* else time.NewTicker and "Starting stats"
StatsStart ==
    /\ mainPc # "exited"
    /\ statsPc = "start"
    /\ IF statsIntervalSeconds <= 0
       THEN /\ logs' = Log(logs, "Disabling stats")
            /\ statsPc' = "done"
       ELSE /\ logs' = Log(logs, "Starting stats")
            /\ statsPc' = "loop"
    /\ UNCHANGED <<config, now, startTime, events, statsLocals, tickerC, stopChan,
                   closes, signalChan, wg, mainPc, watcherPc, controllerPc, webPcs>>

\* the runtime timer sends a tick on ticker.C (capacity 1) unless one is
\* still buffered
TickerFire ==
    /\ mainPc # "exited"
    /\ statsPc = "loop"
    /\ printed < MaxSnapshots
    /\ tickerC = 0
    /\ tickerC' = 1
    /\ UNCHANGED <<config, now, startTime, events, logs, statsLocals, lifecycle>>

\* select, case <-ticker.C: the select takes any ready case, so this one is
\* enabled whether or not stopChan is closed; then addC is loaded
StatsTick ==
    /\ mainPc # "exited"
    /\ statsPc = "loop"
    /\ tickerC = 1
    /\ tickerC' = 0
    /\ addC' = addCounter
    /\ statsPc' = "loadUpdate"
    /\ UNCHANGED <<config, now, startTime, events, logs, snapshot, printed, emitted,
                   prevAdd, prevUpdate, prevDelete, updateC, deleteC,
                   stopChan, closes, signalChan, wg, mainPc, watcherPc,
                   controllerPc, webPcs>>

\* updateC := atomic.LoadInt32(&updateCounter)
StatsLoadUpdate ==
    /\ mainPc # "exited"
    /\ statsPc = "loadUpdate"
    /\ updateC' = updateCounter
    /\ statsPc' = "loadDelete"
    /\ UNCHANGED <<config, now, startTime, events, logs, snapshot, printed, emitted,
                   prevAdd, prevUpdate, prevDelete, addC, deleteC, tickerC,
                   stopChan, closes, signalChan, wg, mainPc, watcherPc,
                   controllerPc, webPcs>>

\* deleteC := atomic.LoadInt32(&deleteCounter)
StatsLoadDelete ==
    /\ mainPc # "exited"
    /\ statsPc = "loadDelete"
    /\ deleteC' = deleteCounter
    /\ statsPc' = "print"
    /\ UNCHANGED <<config, now, startTime, events, logs, snapshot, printed, emitted,
                   prevAdd, prevUpdate, prevDelete, addC, updateC, tickerC,
                   stopChan, closes, signalChan, wg, mainPc, watcherPc,
                   controllerPc, webPcs>>

\* the ticker case without the assignment to prevAdd, prevUpdate, prevDelete
StatsPrintKeepsPrev ==
    /\ mainPc # "exited"
    /\ statsPc = "print"
    /\ snapshot' = Snapshot
    /\ emitted' = Emitted
    /\ printed' = printed + 1
    /\ addC' = 0 /\ updateC' = 0 /\ deleteC' = 0
    /\ statsPc' = "loop"
    /\ UNCHANGED <<prevAdd, prevUpdate, prevDelete>>
    /\ UNCHANGED <<config, now, startTime, events, logs, tickerC,
                   stopChan, closes, signalChan, wg, mainPc, watcherPc,
                   controllerPc, webPcs>>

\* the ticker case taking its deltas by resetting the counters after printing
StatsPrintResets ==
    /\ mainPc # "exited"
    /\ statsPc = "print"
    /\ snapshot' = Snapshot
    /\ emitted' = Emitted
    /\ printed' = printed + 1
    /\ prevAdd' = 0 /\ prevUpdate' = 0 /\ prevDelete' = 0
    /\ addCounter' = 0 /\ updateCounter' = 0 /\ deleteCounter' = 0
    /\ addC' = 0 /\ updateC' = 0 /\ deleteC' = 0
    /\ statsPc' = "loop"
    /\ UNCHANGED <<config, now, startTime, store, notification, pending, metrics,
                   handled, onlyFreshAdds, logs, tickerC,
                   stopChan, closes, signalChan, wg, mainPc, watcherPc,
                   controllerPc, webPcs>>

\* the ticker case loading the counters again for prevAdd, prevUpdate,
\* prevDelete instead of keeping the values it printed
StatsPrintReloads ==
    /\ mainPc # "exited"
    /\ statsPc = "print"
    /\ snapshot' = Snapshot
    /\ emitted' = Emitted
    /\ printed' = printed + 1
    /\ prevAdd' = addCounter
    /\ prevUpdate' = updateCounter
    /\ prevDelete' = deleteCounter
    /\ addC' = 0 /\ updateC' = 0 /\ deleteC' = 0
    /\ statsPc' = "loop"
    /\ UNCHANGED <<config, now, startTime, events, logs, tickerC,
                   stopChan, closes, signalChan, wg, mainPc, watcherPc,
                   controllerPc, webPcs>>

\* the three STATS records (the store is listed here) and the assignment to
\* prevAdd, prevUpdate, prevDelete; addC, updateC, deleteC go out of scope
StatsPrint ==
    /\ mainPc # "exited"
    /\ statsPc = "print"
    /\ snapshot' = Snapshot
    /\ emitted' = Emitted
    /\ printed' = printed + 1
    /\ prevAdd' = addC
    /\ prevUpdate' = updateC
    /\ prevDelete' = deleteC
    /\ addC' = 0 /\ updateC' = 0 /\ deleteC' = 0
    /\ statsPc' = "loop"
    /\ UNCHANGED <<config, now, startTime, events, logs, tickerC,
                   stopChan, closes, signalChan, wg, mainPc, watcherPc,
                   controllerPc, webPcs>>

\* the stopChan case leaving the select with break instead of return: the
\* loop goes on
StatsStopBreaks ==
    /\ mainPc # "exited"
    /\ statsPc = "loop"
    /\ stopChan = "closed"
    /\ logs' = Log(logs, "Stopping stats")
    /\ statsPc' = "loop"
    /\ UNCHANGED <<config, now, startTime, events, statsLocals, tickerC, stopChan,
                   closes, signalChan, wg, mainPc, watcherPc, controllerPc, webPcs>>

\* select, case <-stopChan: "Stopping stats", ticker.Stop(), return
StatsStop ==
    /\ mainPc # "exited"
    /\ statsPc = "loop"
    /\ stopChan = "closed"
    /\ logs' = Log(logs, "Stopping stats")
    /\ statsPc' = "done"
    /\ UNCHANGED <<config, now, startTime, events, statsLocals, tickerC, stopChan,
                   closes, signalChan, wg, mainPc, watcherPc, controllerPc, webPcs>>

\* ---------------------------------------------------------------- WebServer
\* WebServer.Run up to <-stopchan: go ws.stop(ctx, wg); go ListenAndServe
WebRunStart ==
    /\ mainPc # "exited"
    /\ webRunPc = "start"
    /\ webStopPc' = "waitCtx"
    /\ listenPc' = "listening"
    /\ webRunPc' = "waitStop"
    /\ UNCHANGED <<config, now, startTime, events, logs, statsLocals, tickerC,
                   stopChan, closes, signalChan, wg, mainPc, watcherPc, statsPc,
                   controllerPc>>

\* WebServer.Run: <-stopchan; cancel()
WebRunCancel ==
    /\ mainPc # "exited"
    /\ webRunPc = "waitStop"
    /\ stopChan = "closed"
    /\ webRunPc' = "cancelled"
    /\ UNCHANGED <<config, now, startTime, events, logs, statsLocals, tickerC,
                   stopChan, closes, signalChan, wg, mainPc, watcherPc, statsPc,
                   controllerPc, webStopPc, listenPc>>

\* ListenAndServe returns an error other than ErrServerClosed (the port is
\* taken): "Error stopping webserver", and the goroutine ends
ListenFail ==
    /\ mainPc # "exited"
    /\ listenPc = "listening"
    /\ webStopPc = "waitCtx"
    /\ listenPc' = "failed"
    /\ logs' = Log(logs, "Error stopping webserver")
    /\ UNCHANGED <<config, now, startTime, events, statsLocals, tickerC,
                   stopChan, closes, signalChan, wg, mainPc, watcherPc, statsPc,
                   controllerPc, webRunPc, webStopPc>>

\* ListenAndServe returns ErrServerClosed once Shutdown has been called
ListenClosed ==
    /\ mainPc # "exited"
    /\ listenPc = "listening"
    /\ webStopPc \in {"shutdown", "done"}
    /\ listenPc' = "closed"
    /\ UNCHANGED <<config, now, startTime, events, logs, statsLocals, tickerC,
                   stopChan, closes, signalChan, wg, mainPc, watcherPc, statsPc,
                   controllerPc, webRunPc, webStopPc>>

\* WebServer.stop calling Shutdown without waiting for ctx.Done()
WebStopShutdownAtOnce ==
    /\ mainPc # "exited"
    /\ webStopPc = "waitCtx"
    /\ webStopPc' = "shutdown"
    /\ UNCHANGED <<config, now, startTime, events, logs, statsLocals, tickerC,
                   stopChan, closes, signalChan, wg, mainPc, watcherPc, statsPc,
                   controllerPc, webRunPc, listenPc>>

\* WebServer.stop: <-ctx.Done(), then ws.server.Shutdown(stopCtx) is called
WebStopShutdown ==
    /\ mainPc # "exited"
    /\ webStopPc = "waitCtx"
    /\ webRunPc = "cancelled"
    /\ webStopPc' = "shutdown"
    /\ UNCHANGED <<config, now, startTime, events, logs, statsLocals, tickerC,
                   stopChan, closes, signalChan, wg, mainPc, watcherPc, statsPc,
                   controllerPc, webRunPc, listenPc>>

\* WebServer.stop: Shutdown returns nil, or the context error after the 10 s
\* grace period (logged by Err(err).Send() as a record without a message,
\* which logs does not count); "Shut down web server"; the deferred wg.Done()
WebStopReturn ==
    /\ mainPc # "exited"
    /\ webStopPc = "shutdown"
    /\ \E err \in {"nil", "deadline"} :
          logs' = Log(logs, "Shut down web server")
    /\ wg' = wg - 1
    /\ webStopPc' = "done"
    /\ UNCHANGED <<config, now, startTime, events, statsLocals, tickerC,
                   stopChan, closes, signalChan, mainPc, watcherPc, statsPc,
                   controllerPc, webRunPc, listenPc>>

\* ------------------------------------------------------------ specification
Next ==
    \/ MainStartWatcher \/ MainStartWeb \/ MainAwaitSignal \/ MainCloseStop
    \/ MainWait \/ SignalArrives
    \/ RunSetup \/ RunStartController \/ RunReturnOnStop \/ RunReturnOnStats
    \/ ControllerStop \/ InformerDeliver \/ OnAdd \/ OnUpdate \/ OnDelete
    \/ ClockTick
    \/ StatsStart \/ TickerFire \/ StatsTick \/ StatsLoadUpdate \/ StatsLoadDelete
    \/ StatsPrint \/ StatsStop
    \/ WebRunStart \/ WebRunCancel \/ ListenFail \/ ListenClosed
    \/ WebStopShutdown \/ WebStopReturn

Spec == Init /\ [][Next]_vars

\* The program on a mirror that dispatches concurrently, with the stats
\* printer disabled (--stats-interval <= 0; revision "isOldEvent" has none).
InitStatsOff == Init /\ statsIntervalSeconds <= 0

NextConcurrent ==
    \/ MainStartWatcher \/ MainStartWeb \/ MainAwaitSignal \/ MainCloseStop
    \/ MainWait \/ SignalArrives
    \/ RunSetup \/ RunStartController \/ RunReturnOnStop \/ RunReturnOnStats
    \/ ControllerStop \/ InformerDeliver \/ InformerDeliverAhead \/ InformerDispatch
    \/ OnAdd \/ OnUpdate \/ OnDelete
    \/ ClockTick
    \/ StatsStart
    \/ WebRunStart \/ WebRunCancel \/ ListenFail \/ ListenClosed
    \/ WebStopShutdown \/ WebStopReturn

ConcurrentSpec == InitStatsOff /\ [][NextConcurrent]_vars

\* The whole program with the stats printer disabled: main, both revisions of
\* EventWatcher.Run, the informer with its handlers, and the web server.
NextLifecycle ==
    \/ MainStartWatcher \/ MainStartWeb \/ MainAwaitSignal \/ MainCloseStop
    \/ MainWait \/ SignalArrives
    \/ RunSetup \/ RunStartController \/ RunReturnOnStop \/ RunReturnOnStats
    \/ ControllerStop \/ InformerDeliver \/ OnAdd \/ OnUpdate \/ OnDelete
    \/ ClockTick
    \/ StatsStart
    \/ WebRunStart \/ WebRunCancel \/ ListenFail \/ ListenClosed
    \/ WebStopShutdown \/ WebStopReturn

LifecycleSpec == InitStatsOff /\ [][NextLifecycle]_vars

\* The watcher side of revision "inline" with the stats printer enabled:
\* main, EventWatcher.Run, the informer with its handlers and runStatsPrint.
\* The web server's goroutines (which share only wg with the rest, so main
\* stays in wg.Wait()) and the passing of minutes are left out. Fairness is
\* what the Go scheduler guarantees: a goroutine that can take a step
\* eventually takes it (weak fairness), and a select that is entered again
\* and again with stopChan closed eventually takes that case, since it
\* chooses among its ready cases at random (strong fairness of StatsStop).
InitStatsOn == Init /\ revision = "inline" /\ statsIntervalSeconds > 0

NextWatcher ==
    \/ MainStartWatcher \/ MainStartWeb \/ MainAwaitSignal \/ MainCloseStop
    \/ SignalArrives
    \/ RunSetup \/ RunStartController \/ RunReturnOnStats
    \/ ControllerStop \/ InformerDeliver \/ OnAdd \/ OnUpdate \/ OnDelete
    \/ StatsStart \/ TickerFire \/ StatsTick \/ StatsLoadUpdate \/ StatsLoadDelete
    \/ StatsPrint \/ StatsStop

FairSpec ==
    /\ InitStatsOn
    /\ [][NextWatcher]_vars
    /\ WF_vars(RunSetup) /\ WF_vars(RunStartController)
    /\ WF_vars(StatsStart) /\ WF_vars(StatsLoadUpdate)
    /\ WF_vars(StatsLoadDelete) /\ WF_vars(StatsPrint)
    /\ SF_vars(StatsStop)

\* The watcher side of revision "inline" with the stats printer enabled, on
\* a mirror that dispatches concurrently: handlers and the loads of the
\* stats printer interleave while two notifications are in flight.
NextConcurrentStats == NextWatcher \/ InformerDeliverAhead \/ InformerDispatch

ConcurrentStatsSpec == InitStatsOn /\ [][NextConcurrentStats]_vars

\* The handlers at work: the watcher is started and handles events of every
\* lastTimestamp while the clock advances.
NextHandlers ==
    \/ MainStartWatcher \/ RunSetup \/ RunStartController
    \/ InformerDeliverAnyTime \/ OnAdd \/ OnUpdate \/ OnDelete
    \/ ClockTick

HandlerSpec == Init /\ [][NextHandlers]_vars

\* ------------------------------------------------------------------- claims
\* a handler of a notification of the given kind returns in this step
HandlerReturns(kind) ==
    /\ notification.kind = kind
    /\ notification' = NoNotification

TransitionMessage(kind) ==
    CASE kind = "add" -> "Event added"
      [] kind = "update" -> "Event updated"
      [] kind = "delete" -> "Event deleted"

Int32Counter(kind) ==
    CASE kind = "add" -> addCounter
      [] kind = "update" -> updateCounter
      [] kind = "delete" -> deleteCounter

\* the classification the specification asks for
OldByStartTime(ts) ==
    /\ ts <= startTime
    /\ startTime - ts > oldEventAgeMinutes * Minute

\* the step takes the handler's old branch
CountedOld == metrics'["old"] = metrics["old"] + 1

TransitionLogsUnchanged ==
    \A k \in Kinds : logs'[TransitionMessage(k)] = logs[TransitionMessage(k)]

KindCountersUnchanged ==
    /\ UNCHANGED <<addCounter, updateCounter, deleteCounter>>
    /\ \A k \in Kinds : metrics'[k] = metrics[k]

\* the fresh outcome of a notification of kind k: one transition record and
\* one increment of the counter of k, nothing else counted
FreshOutcome(k) ==
    /\ logs'[TransitionMessage(k)] = logs[TransitionMessage(k)] + 1
    /\ \A j \in Kinds \ {k} : logs'[TransitionMessage(j)] = logs[TransitionMessage(j)]
    /\ Int32Counter(k)' = Int32Counter(k) + 1
    /\ metrics'[k] = metrics[k] + 1
    /\ \A j \in Kinds \ {k} :
          Int32Counter(j)' = Int32Counter(j) /\ metrics'[j] = metrics[j]
    /\ metrics'["old"] = metrics["old"]

\* the old outcome: one increment of the old counter, nothing else
OldOutcome ==
    /\ CountedOld
    /\ KindCountersUnchanged
    /\ TransitionLogsUnchanged

\* C1: a handler takes the old branch exactly when the event's timestamp is
\* at or before the start time and more than 5 minutes before it.
C1_OldExactlyBeyondThreshold ==
    [][\A k \in Kinds :
          HandlerReturns(k) => (CountedOld <=> OldByStartTime(notification.ts))]_vars

\* C2: every handled notification has exactly one of the two outcomes, fresh
\* (record and counter of its kind) or old (old counter), and the four
\* counters always add up to the number of notifications handled.
C2_ExactlyOneOutcome ==
    /\ [](addCounter + updateCounter + deleteCounter + metrics["old"] = handled)
    /\ [][\A k \in Kinds :
             HandlerReturns(k) =>
                /\ FreshOutcome(k) \/ OldOutcome
                /\ ~(FreshOutcome(k) /\ OldOutcome)]_vars

C2_Witness ==
    /\ handled = MaxNotifications
    /\ metrics["old"] = 1
    /\ deleteCounter = 1

\* C3: as long as only add notifications were handled and all were taken as
\* fresh, the added counter equals their number and the updated, deleted and
\* old counters are still zero.
C3_FreshAddsCountAdded ==
    onlyFreshAdds =>
        /\ addCounter = handled
        /\ metrics["add"] = handled
        /\ updateCounter = 0 /\ metrics["update"] = 0
        /\ deleteCounter = 0 /\ metrics["delete"] = 0
        /\ metrics["old"] = 0

C3_Witness ==
    /\ onlyFreshAdds
    /\ handled = MaxNotifications
    /\ addCounter = MaxNotifications

C5_OldOnlyCountsOld ==
    [][\A k \in Kinds :
          (HandlerReturns(k) /\ classifiedOld(notification.ts)) => OldOutcome]_vars

C5_Witness ==
    /\ metrics["old"] = MaxNotifications
    /\ handled = MaxNotifications
    /\ addCounter = 0 /\ updateCounter = 0 /\ deleteCounter = 0
    /\ \A k \in Kinds : logs[TransitionMessage(k)] = 0

\* C6: the process exits only after the informer's controller, the stats
\* printer and the web server's shutdown have all completed.
C6_ExitAfterAllTasks ==
    mainPc = "exited" =>
        /\ controllerPc = "done"
        /\ (revision = "inline" => statsPc = "done")
        /\ webStopPc = "done"

\* C7: once stopChan is closed no further STATS snapshot is printed.
C7_NoSnapshotAfterStop ==
    [][stopChan = "closed" => printed' = printed]_vars

\* C8: with statsIntervalSeconds <= 0 the stats printer never creates a
\* ticker, never prints a snapshot, and has written exactly one "Disabling
\* stats" record when it has returned (none before).
C8_DisabledStats ==
    (revision = "inline" /\ statsIntervalSeconds <= 0) =>
        /\ statsPc \in {"none", "start", "done"}
        /\ tickerC = 0
        /\ printed = 0 /\ snapshot = NoSnapshot
        /\ logs["Starting stats"] = 0 /\ logs["Stopping stats"] = 0
        /\ logs["Disabling stats"] = (IF statsPc = "done" THEN 1 ELSE 0)

C8_Witness ==
    /\ revision = "inline"
    /\ statsIntervalSeconds = 0
    /\ statsPc = "done"
    /\ logs["Disabling stats"] = 1
    /\ handled = MaxNotifications
    /\ mainPc = "exited"

\* C9: every snapshot shows the counter values read at its tick (values
\* between the previous snapshot's and the counters' current ones), and each
\* delta is that value minus the value of the previous snapshot (zero before
\* the first snapshot, whose deltas are its cumulative values).
C9_DeltaSincePreviousSnapshot ==
    [][printed' = printed + 1 =>
          /\ snapshot'.addCounter = addC
          /\ snapshot'.updateCounter = updateC
          /\ snapshot'.deleteCounter = deleteC
          /\ snapshot.addCounter <= addC /\ addC <= addCounter
          /\ snapshot.updateCounter <= updateC /\ updateC <= updateCounter
          /\ snapshot.deleteCounter <= deleteC /\ deleteC <= deleteCounter
          /\ snapshot'.added = snapshot'.addCounter - snapshot.addCounter
          /\ snapshot'.updated = snapshot'.updateCounter - snapshot.updateCounter
          /\ snapshot'.deleted = snapshot'.deleteCounter - snapshot.deleteCounter
          /\ (printed = 0 =>
                /\ snapshot'.added = snapshot'.addCounter
                /\ snapshot'.updated = snapshot'.updateCounter
                /\ snapshot'.deleted = snapshot'.deleteCounter)]_vars

C9_Witness ==
    /\ printed = 2
    /\ snapshot.addCounter = 2
    /\ snapshot.added = 1

\* C10: stopChan is closed at most once, and once it is closed it stays
\* closed, nothing is added to the WaitGroup, no goroutine that is done runs
\* again, and a further termination signal changes nothing but the buffer of
\* signalChan.
C10_StopBroadcastOnce ==
    /\ [](closes <= 1)
    /\ [][stopChan = "closed" =>
             /\ stopChan' = "closed"
             /\ closes' = closes
             /\ wg' <= wg
             /\ \A pc \in {"done"} :
                   /\ (watcherPc = pc => watcherPc' = pc)
                   /\ (statsPc = pc => statsPc' = pc)
                   /\ (controllerPc = pc => controllerPc' = pc)
                   /\ (webStopPc = pc => webStopPc' = pc)
             /\ (signalChan' > signalChan =>
                   UNCHANGED <<config, now, startTime, events, logs, statsLocals,
                               tickerC, stopChan, closes, wg, mainPc, watcherPc,
                               statsPc, controllerPc, webPcs>>)]_vars

C10_Witness ==
    /\ closes = 1
    /\ stopChan = "closed"
    /\ signalChan = 1
    /\ mainPc = "exited"

\* C11: when the handler of an add or update notification finds its object
\* already absent from the store, it writes one "Could not delete object"
\* record (and none when the object is there), counts the notification as its
\* classification says, and returns: the store, the informer's controller
\* and every goroutine are where they were, so later notifications are
\* handled.
C11_DeleteFailureNotFatal ==
    [][\A k \in {"add", "update"} :
          HandlerReturns(k) =>
             IF storeDeleteFails(notification.key)
             THEN /\ logs'["Could not delete object"] = logs["Could not delete object"] + 1
                  /\ IF classifiedOld(notification.ts) THEN OldOutcome ELSE FreshOutcome(k)
                  /\ handled' = handled + 1
                  /\ store' = store
                  /\ UNCHANGED <<pending, lifecycle>>
             ELSE logs'["Could not delete object"] = logs["Could not delete object"]]_vars

\* the add handler failed to delete (the delete applied ahead had removed the
\* object), and the delete notification was handled after it
C11_Witness ==
    /\ logs["Could not delete object"] = 1
    /\ handled = MaxNotifications
    /\ addCounter = 1
    /\ deleteCounter = 1
    /\ controllerPc = "running"

\* C12: with a positive interval, once stopChan is closed the stats printer
\* eventually returns; it has then written "Stopping stats" exactly once
\* (never more), and after its return its ticker sends no tick and no
\* snapshot is printed.
C12_StatsTerminatesOnStop ==
    /\ (stopChan = "closed") ~> (statsPc = "done")
    /\ [](logs["Stopping stats"] = (IF statsPc = "done" THEN 1 ELSE 0))
    /\ [][statsPc = "done" =>
             /\ statsPc' = "done"
             /\ tickerC' = tickerC
             /\ printed' = printed]_vars

C12_Witness ==
    /\ statsIntervalSeconds > 0
    /\ stopChan = "closed"
    /\ statsPc = "done"
    /\ logs["Stopping stats"] = 1
    /\ printed = MaxSnapshots

\* C13: the branch a handler takes for an event is the branch it would take
\* for the same event and the same start time at any other wall-clock time
\* of delivery (from the start time on).
C13_ClassificationIgnoresClock ==
    [][\A k \in Kinds :
          HandlerReturns(k) =>
             \A clock \in startTime .. MaxTime :
                CountedOld <=> classifiedOldAt(notification.ts, clock)]_vars

\* C14 as claimed: the handler of a delete notification deletes the object
\* from the store too, so the object is not in the store when it returns.
C14_DeleteHandlerDrains ==
    [][HandlerReturns("delete") => notification.key \notin store']_vars

\* C14 amended: the handler of a delete notification never calls
\* Store.Delete: it leaves the store as it is, also when the object is in it
\* again, and writes no "Could not delete object" record.
C14_DeleteHandlerSkipsStore ==
    [][HandlerReturns("delete") =>
          /\ store' = store
          /\ logs'["Could not delete object"] = logs["Could not delete object"]]_vars

\* a delete notification was handled while the object, added again ahead,
\* was in the store: it is still there
C14_Witness ==
    /\ handled = 1
    /\ deleteCounter = 1
    /\ notification = NoNotification
    /\ pending.kind = "add"
    /\ store # {}

\* C15: in every interleaving of handlers and stats loads each int32 counter
\* (and its prometheus counter) equals the number of notifications of its
\* kind taken as fresh, counted by their transition records; a value the
\* stats printer has loaded lies between the value of its previous snapshot
\* and the counter's current value, so the counter held it.
C15_NoLostIncrement ==
    /\ \A k \in Kinds :
          /\ Int32Counter(k) = logs[TransitionMessage(k)]
          /\ metrics[k] = logs[TransitionMessage(k)]
    /\ (statsPc \in {"loadUpdate", "loadDelete", "print"} =>
          prevAdd <= addC /\ addC <= addCounter)
    /\ (statsPc \in {"loadDelete", "print"} =>
          prevUpdate <= updateC /\ updateC <= updateCounter)
    /\ (statsPc = "print" => prevDelete <= deleteC /\ deleteC <= deleteCounter)
    /\ prevAdd <= addCounter /\ prevUpdate <= updateCounter
    /\ prevDelete <= deleteCounter

\* both handlers ran between the load of addCounter and the load of
\* updateCounter, the second while the first had already drained the store
C15_Witness ==
    /\ statsPc = "print"
    /\ addC = 0 /\ addCounter = 1
    /\ updateC = 1
    /\ logs["Could not delete object"] = 1

C17_StartTimeAssignedOnce ==
    /\ [](controllerPc # "none" =>
             /\ startTime >= InitialClock
             /\ startTime <= now)
    /\ []((notification # NoNotification \/ handled > 0) => controllerPc # "none")
    /\ [][startTime' # startTime =>
             /\ startTime = 0
             /\ startTime' = now
             /\ watcherPc = "setup"
             /\ controllerPc = "none" /\ controllerPc' = "none"
             /\ notification = NoNotification /\ handled = 0]_vars

\* the start time was fixed, a minute passed before the controller was
\* started, and all notifications were classified
C17_Witness ==
    /\ startTime = InitialClock
    /\ now = MaxTime
    /\ handled = MaxNotifications
    /\ metrics["old"] = 1
    /\ mainPc = "exited"

\* the informer hands a notification to a handler in this step
Delivered ==
    /\ notification = NoNotification
    /\ notification' # NoNotification

\* the dispatch rule of the mirror: a change to a key that is in the store is
\* an update notification, a change to a key that is not is an add
RespectsPresence ==
    /\ (notification'.kind = "update" => notification'.key \in store)
    /\ (notification'.kind = "add" => notification'.key \notin store)

\* C18: a notification dispatched by the presence rule is never an update
\* (the handlers have drained the key, so a change to it is an add); the
\* updated counters change only in a step that handles an update
\* notification, so under the rule never; and every add taken as fresh
\* raises the added counters by one.
C18_EveryChangeIsAnAdd ==
    /\ [][(Delivered /\ RespectsPresence) => notification'.kind # "update"]_vars
    /\ [][(updateCounter' # updateCounter \/ metrics'["update"] # metrics["update"])
             => HandlerReturns("update")]_vars
    /\ [][(HandlerReturns("add") /\ ~classifiedOld(notification.ts)) =>
             /\ addCounter' = addCounter + 1
             /\ metrics'["add"] = metrics["add"] + 1]_vars

\* the same key changed MaxNotifications times, each change an add
C18_Witness ==
    /\ logs["Event added"] = MaxNotifications
    /\ addCounter = MaxNotifications
    /\ updateCounter = 0 /\ metrics["update"] = 0
    /\ notification = NoNotification
    /\ store = {}

\* C19: EventWatcher.Run has returned (and called wg.Done) only if stopChan
\* is closed, whatever the stats interval.
C19_WatcherDoneOnlyAfterStop ==
    watcherPc = "done" => stopChan = "closed"

\* tasks main has registered with wg.Add(1), and tasks that have called
\* wg.Done()
Registered ==
    (IF mainPc = "startWatcher" THEN 0 ELSE 1)
    + (IF mainPc \in {"startWatcher", "startWeb"} THEN 0 ELSE 1)

Signalled ==
    (IF watcherPc = "done" THEN 1 ELSE 0) + (IF webStopPc = "done" THEN 1 ELSE 0)

\* C20: wg counts the registered tasks that have not signalled: main
\* registers two, the watcher's Run and the web server's stop signal once
\* each, the count is never negative, and once a task is registered the count
\* is zero only when both have signalled.
C20_BarrierBalanced ==
    /\ wg = Registered - Signalled
    /\ wg >= 0
    /\ Registered <= 2
    /\ (webRunPc = "cancelled" => webStopPc # "none")
    /\ ((wg = 0 /\ Registered > 0) =>
           (watcherPc = "done" /\ webStopPc = "done"))

\* C21: Shutdown is called only after stopChan is closed (and Run has
\* cancelled the context); WebServer.stop calls wg.Done() in the step in which
\* Shutdown returns, after the "Shut down web server" record, and in no
\* other; a failed ListenAndServe writes its error record and changes
\* nothing else: wg, stopChan and every goroutine are as before, and until
\* the stop signal WebServer.stop keeps waiting with the count above zero.
C21_WebShutdownOrder ==
    /\ [](webStopPc \in {"shutdown", "done"} =>
             stopChan = "closed" /\ webRunPc = "cancelled")
    /\ [](logs["Shut down web server"] = (IF webStopPc = "done" THEN 1 ELSE 0))
    /\ []((listenPc = "failed" /\ stopChan = "open") =>
             /\ webStopPc = "waitCtx"
             /\ wg >= 1
             /\ mainPc # "exited")
    /\ [][(webStopPc' = "done" /\ webStopPc # "done") =>
             /\ webStopPc = "shutdown"
             /\ wg' = wg - 1]_vars
    /\ [][listenPc' = "failed" =>
             (listenPc = "failed" \/
                UNCHANGED <<config, now, startTime, events, statsLocals, tickerC,
                            stopChan, closes, signalChan, wg, mainPc, watcherPc,
                            statsPc, controllerPc, webRunPc, webStopPc>>)]_vars

\* ListenAndServe failed at startup; the watcher went on handling
\* notifications, and after the stop signal Shutdown returned and the
\* process exited
C21_Witness ==
    /\ listenPc = "failed"
    /\ logs["Error stopping webserver"] = 1
    /\ handled = MaxNotifications
    /\ webStopPc = "done"
    /\ mainPc = "exited"

====
